---- MODULE Spec2Model ----
(***************************************************************************)
(* bokeh/io/export.py: exporting a layout to PNG or SVG through a browser  *)
(* driver.  One behaviour of Spec is one call of export_png, export_svgs,  *)
(* get_screenshot_as_png or get_svgs; one behaviour of SpecTempFile is a   *)
(* sequence of close / __exit__ / __del__ calls on one _TempFile.          *)
(***************************************************************************)
EXTENDS Integers, Sequences, FiniteSets, TLC

\* ------------------------------------------------------------------ bounds
\* polls of one WebDriverWait before its timeout must have elapsed
MaxPolls == 2
\* entries of the browser console log
MaxLog == 1
\* SVG strings the page can hold
MaxSvgs == 3
\* method calls made on the _TempFile in SpecTempFile
MaxCalls == 3

\* ------------------------------------------------------------ Python values
None == "None"
\* a filename argument left at its default None (filenames are sequences of characters)
NoneName == <<"None">>

Functions == {"export_png", "export_svgs", "get_screenshot_as_png", "get_svgs"}
IsPng(f) == f \in {"export_png", "get_screenshot_as_png"}

\* the object to export: a Plot (with its size) or another layout
Objects == [isPlot : BOOLEAN, plot_height : {"600"}, plot_width : {"800"}]
HeightArgs == {None, "300"}
WidthArgs == {None, "400"}

\* export_png and export_svgs pass height= and width= always; a direct call of
\* get_screenshot_as_png / get_svgs passes any subset of the two keywords
\* (a keyword that is not passed has the value Absent in the kwargs record)
Absent == "<absent>"
ExportKwargs == [height : HeightArgs, width : WidthArgs]
DirectKwargs == [height : HeightArgs \cup {Absent}, width : WidthArgs \cup {Absent}]
KwargsOf(f) == IF f \in {"export_png", "export_svgs"} THEN ExportKwargs ELSE DirectKwargs

\* dict.get(key, default)
KwGet(kw, key, default) == IF kw[key] = Absent THEN default ELSE kw[key]

\* filenames the caller may give
Filenames == {<<"a", ".", "s", "v", "g">>, <<"a", "b">>, <<"a">>, <<".", "s", "v", "g">>, <<"a", ".", "s", "v", "g", ".", "s", "v", "g">>}

\* images the screenshot can decode to
Images == [width : {0, 1}, height : {0, 1}]

\* str(n) for n >= 0
Digit(d) == CASE d = 0 -> "0" [] d = 1 -> "1" [] d = 2 -> "2" [] d = 3 -> "3" [] d = 4 -> "4" [] d = 5 -> "5" [] d = 6 -> "6" [] d = 7 -> "7" [] d = 8 -> "8" [] d = 9 -> "9"
RECURSIVE Decimal(_)
Decimal(n) == IF n < 10 THEN <<Digit(n)>> ELSE Append(Decimal(n \div 10), Digit(n % 10))

\* the browser console log: entries with a level and a message
Levels == {"INFO", "WARNING", "ERROR", "SEVERE"}
RECURSIVE LogsOfLen(_)
LogsOfLen(n) == IF n = 0 THEN {<<>>} ELSE {Append(l, [level |-> lv, message |-> Digit(n)]) : l \in LogsOfLen(n - 1), lv \in Levels}
BrowserLogs == UNION {LogsOfLen(n) : n \in 0..MaxLog}

\* -------------------------------------------------------- string operations
\* s[i:] and s[:i] with Python's treatment of negative and out-of-range indices
PyIndex(s, i) == LET j == IF i < 0 THEN i + Len(s) ELSE i IN IF j < 0 THEN 0 ELSE IF j > Len(s) THEN Len(s) ELSE j
SliceTo(s, i) == SubSeq(s, 1, PyIndex(s, i))
SliceFrom(s, i) == SubSeq(s, PyIndex(s, i) + 1, Len(s))

\* str.find: the lowest 0-based index where sub occurs in s, or -1
find(s, sub) ==
  LET hits == {i \in 0..(Len(s) - Len(sub)) : SubSeq(s, i + 1, i + Len(sub)) = sub}
  IN IF hits = {} THEN -1 ELSE CHOOSE i \in hits : \A j \in hits : i <= j


\* "_{}".format(i)
FormatIndex(i) == <<"_">> \o Decimal(i)

SvgExt == <<".", "s", "v", "g">>

\* the filename of the i-th SVG, from the filename of the one before it
SvgFilenameSame(filename, i) == filename
SvgFilename(filename, i) ==
  IF i = 0 THEN filename
  ELSE LET idx == find(filename, SvgExt)
       IN SliceTo(filename, idx) \o FormatIndex(i) \o SliceFrom(filename, idx)

\* default_filename(ext): the script's name with the extension
default_filename(ext) == <<"/", "s", ".">> \o ext

\* os.path.abspath
abspath(name) == IF name[1] = "/" THEN name ELSE <<"/", "c", "w", "d", "/">> \o name

\* ------------------------------------------------------------------- state
VARIABLES
  fn,          \* the entry point called
  obj,         \* the exported object (its size is mutable)
  kwargs,      \* get_layout_html's kwargs (until it returns)
  pc,          \* the position of the call
  exc,         \* the exception propagating out of the call, or "none"
  tmp,         \* the _TempFile: fd, path, _closed
  fs,          \* the file system: is the descriptor open, does the temp file exist
  swallowed,   \* the OSErrors _TempFile.close caught
  gcDone,      \* has __del__ run
  resize,      \* get_layout_html's locals resize, old_height, old_width
  old,
  html,        \* has file_html returned the HTML, has it been written to the temp file
  loadWait,    \* outcome of the "library loaded" wait
  renderWait,  \* outcome of the "render complete" wait
  loadPolls,   \* polls made by each wait
  renderPolls,
  waitExit,    \* how wait_until_render_complete ended
  captured,    \* what driver.get_log('browser') returned
  logged,      \* the records emitted through log.warning / warnings.warn
  image,       \* the decoded screenshot
  svgs,        \* the serialized SVG strings
  filename,    \* export_svgs' locals
  filenames,
  i,
  written,     \* the output files written, in order
  result,      \* the value returned
  chosen,      \* the filename export_png / export_svgs settled on (lines 93-94, 143-144)
  trace        \* the calls made to the collaborators, in order

vars == <<fn, obj, kwargs, pc, exc, tmp, fs, swallowed, gcDone, resize, old, html, loadWait, renderWait, loadPolls, renderPolls, waitExit, captured, logged, image, svgs, filename, filenames, i, written, result, chosen, trace>>

inputVars == <<fn>>
tmpVars == <<tmp, fs, swallowed, gcDone>>
layoutVars == <<obj, kwargs, resize, old, html>>
waitVars == <<loadWait, renderWait, loadPolls, renderPolls, waitExit, captured>>
outVars == <<image, svgs, filename, filenames, i, written, result, chosen>>

NoKwargs == [height |-> Absent, width |-> Absent]
NoOld == [height |-> None, width |-> None]
NoTmp == [fd |-> None, path |-> None, _closed |-> FALSE]
NoResult == [kind |-> "unset", value |-> <<>>]
NoImage == [width |-> 0 - 1, height |-> 0 - 1]
\* the trace after a call of a collaborator that returned (ok) or raised
Called(call, ok) == trace \o <<call>> \o (IF ok THEN <<>> ELSE <<"raised">>)
Warning(text) == [kind |-> "warning", message |-> text]

Common ==
  /\ exc = "none"
  /\ swallowed = {}
  /\ gcDone = FALSE
  /\ resize = FALSE
  /\ old = NoOld
  /\ html = [rendered |-> FALSE, written |-> FALSE]
  /\ loadWait = "pending"
  /\ renderWait = "pending"
  /\ loadPolls = 0
  /\ renderPolls = 0
  /\ waitExit = "none"
  /\ captured = <<>>
  /\ logged = <<>>
  /\ image = NoImage
  /\ svgs = <<>>
  /\ filename = NoneName
  /\ filenames = <<>>
  /\ i = 0
  /\ written = <<>>
  /\ result = NoResult
  /\ chosen = NoneName
  /\ trace = <<>>

Init ==
  /\ fn \in Functions
  /\ obj \in Objects
  /\ kwargs \in KwargsOf(fn)
  /\ pc = "start"
  /\ tmp = NoTmp
  /\ fs = [fdOpen |-> FALSE, exists |-> FALSE]
  /\ Common

\* ------------------------------------------------------------- _TempFile
\* _TempFile.close: what it leaves of the object and of the file system, the
\* errors it caught and the os calls it made.  cfail / ufail: os.close /
\* os.unlink raise OSError.
closeNoGuard(t, f, cfail, ufail) ==
  [tmp |-> [fd |-> None, path |-> None, _closed |-> TRUE],
   fs |-> [fdOpen |-> IF cfail THEN f.fdOpen ELSE FALSE, exists |-> IF ufail THEN f.exists ELSE FALSE],
   caught |-> (IF cfail THEN {"os_close"} ELSE {}) \cup (IF ufail THEN {"unlink"} ELSE {}),
   calls |-> <<"os_close", "unlink">>, raised |-> "none"]
close(t, f, cfail, ufail) ==
  IF t._closed THEN [tmp |-> t, fs |-> f, caught |-> {}, calls |-> <<>>, raised |-> "none"]
  ELSE [tmp |-> [fd |-> None, path |-> None, _closed |-> TRUE],
        fs |-> [fdOpen |-> IF cfail THEN f.fdOpen ELSE FALSE, exists |-> IF ufail THEN f.exists ELSE FALSE],
        caught |-> (IF cfail THEN {"os_close"} ELSE {}) \cup (IF ufail THEN {"unlink"} ELSE {}),
        calls |-> <<"os_close", "unlink">>, raised |-> "none"]

\* a method of the _TempFile that only calls close
CallClose(method, cfail, ufail) ==
  LET r == close(tmp, fs, cfail, ufail)
  IN /\ tmp' = r.tmp
     /\ fs' = r.fs
     /\ swallowed' = swallowed \cup r.caught
     /\ exc' = IF r.raised # "none" THEN r.raised ELSE exc
     /\ trace' = trace \o <<method>> \o r.calls

\* _tmp_html() -> _TempFile.__init__ -> mkstemp
TmpHtml ==
  /\ pc = "start"
  /\ \E ok \in BOOLEAN :
       IF ok
       THEN /\ tmp' = [fd |-> "fd", path |-> "tmp.html", _closed |-> FALSE]
            /\ fs' = [fdOpen |-> TRUE, exists |-> TRUE]
            /\ pc' = "layout"
            /\ UNCHANGED <<exc, gcDone>>
       ELSE /\ exc' = "OSError"
            /\ pc' = "done"
            /\ gcDone' = TRUE
            /\ UNCHANGED <<tmp, fs>>
  /\ trace' = Called("mkstemp", exc' = "none")
  /\ UNCHANGED <<inputVars, swallowed, layoutVars, waitVars, logged, outVars>>

\* where an exception raised inside the with block goes: to __exit__
RaiseSkippingExit(e) == /\ exc' = e
                        /\ pc' = "done"
RaiseInWith(e) == /\ exc' = e
                  /\ pc' = "tmp_exit"

\* ------------------------------------------------------- get_layout_html
\* the size set on the plot for one dimension
NewSize(kw, key, oldv) == KwGet(kw, key, oldv)

\* lines 222-233: decide whether to resize, set the requested size
GetLayoutHtmlResize ==
  /\ pc = "layout"
  /\ IF KwGet(kwargs, "height", None) # None \/ KwGet(kwargs, "width", None) # None
     THEN IF ~obj.isPlot
          THEN /\ logged' = Append(logged, Warning("height or width on a non-Plot layout"))
               /\ UNCHANGED <<obj, resize, old>>
          ELSE /\ resize' = TRUE
               /\ old' = [height |-> obj.plot_height, width |-> obj.plot_width]
               /\ obj' = [obj EXCEPT !.plot_height = NewSize(kwargs, "height", obj.plot_height),
                                     !.plot_width = NewSize(kwargs, "width", obj.plot_width)]
               /\ UNCHANGED logged
     ELSE UNCHANGED <<obj, resize, old, logged>>
  /\ pc' = "file_html"
  /\ UNCHANGED <<inputVars, kwargs, exc, tmpVars, html, waitVars, outVars, trace>>

\* lines 248-255: file_html renders the object as it is now, or raises; the
\* finally clause restores the size; get_layout_html is left and its locals go
FileHtml ==
  /\ pc = "file_html"
  /\ \E ok \in BOOLEAN :
       /\ html' = [html EXCEPT !.rendered = ok]
       /\ IF ok THEN pc' = "write_html" /\ UNCHANGED exc ELSE RaiseInWith("RenderError")
  /\ obj' = IF resize THEN [obj EXCEPT !.plot_height = old.height, !.plot_width = old.width] ELSE obj
  /\ kwargs' = NoKwargs
  /\ resize' = FALSE
  /\ old' = NoOld
  /\ trace' = Called("file_html", exc' = "none")
  /\ UNCHANGED <<inputVars, tmpVars, waitVars, logged, outVars>>

\* lines 190-191 / 208-209: write the HTML to tmp.path
WriteHtml ==
  /\ pc = "write_html"
  /\ \E ok \in BOOLEAN :
       IF ok
       THEN /\ html' = [html EXCEPT !.written = TRUE]
            /\ pc' = IF IsPng(fn) THEN "maximize_window" ELSE "get"
            /\ UNCHANGED exc
       ELSE RaiseInWith("IOError") /\ UNCHANGED html
  /\ trace' = Called("write_html", exc' = "none")
  /\ UNCHANGED <<inputVars, tmpVars, obj, kwargs, resize, old, waitVars, logged, outVars>>

\* a call of the driver that either returns (going to `next`) or raises
DriverCall(at, call, next) ==
  /\ pc = at
  /\ \E ok \in BOOLEAN :
       IF ok THEN pc' = next /\ UNCHANGED exc ELSE RaiseInWith("WebDriverException")
  /\ trace' = Called(call, exc' = "none")

\* lines 193-194: obtain the driver, maximize its window (PNG only)
MaximizeWindow ==
  /\ DriverCall("maximize_window", "maximize_window", "get")
  /\ UNCHANGED <<inputVars, tmpVars, layoutVars, waitVars, logged, outVars>>

\* lines 195 / 211-212: navigate to the temp file
Navigate ==
  /\ DriverCall("get", "get", "load_poll")
  /\ UNCHANGED <<inputVars, tmpVars, layoutVars, waitVars, logged, outVars>>

\* ------------------------------------------------ wait_until_render_complete
\* line 270 returned: Bokeh is loaded, go on to the wait script
BokehLoadedSkipWaitScript == /\ loadWait' = "true"
                             /\ pc' = "render_poll"
BokehLoaded == /\ loadWait' = "true"
               /\ pc' = "wait_script"

\* line 271: the first WebDriverWait raised TimeoutException
LoadTimeoutIgnored == /\ loadWait' = "timeout"
                      /\ pc' = "wait_script"
LoadTimeout == /\ loadWait' = "timeout"
               /\ pc' = "load_timeout"

\* line 270: one poll of is_bokeh_loaded by WebDriverWait.  "false": not loaded,
\* time remains; "timeout": not loaded and the timeout has elapsed
PollLoaded ==
  /\ pc = "load_poll"
  /\ \E outcome \in {"true", "false", "timeout", "raise"} :
       /\ outcome = "false" => loadPolls + 1 < MaxPolls
       /\ CASE outcome = "true" -> BokehLoaded /\ UNCHANGED <<exc, waitExit>>
            [] outcome = "false" -> UNCHANGED <<loadWait, pc, exc, waitExit>>
            [] outcome = "timeout" -> LoadTimeout /\ UNCHANGED <<exc, waitExit>>
            [] outcome = "raise" -> /\ loadWait' = "error"
                                    /\ waitExit' = "WebDriverException"
                                    /\ RaiseInWith("WebDriverException")
  /\ loadPolls' = loadPolls + 1
  /\ trace' = Called("poll_loaded", exc' = "none")
  /\ UNCHANGED <<inputVars, tmpVars, layoutVars, renderWait, renderPolls, captured, logged, outVars>>

\* the console levels that are reported
levelsNoSevere == {"WARNING", "ERROR"}
levels == {"WARNING", "ERROR", "SEVERE"}

\* lines 296-300: what _log_console emits for the log it read
Emitted(logs) ==
  LET Reported(l) == l.level \in levels
      messages == SelectSeq(logs, Reported)
  IN IF Len(messages) > 0
     THEN <<Warning("browser warnings and/or errors")>> \o [k \in 1..Len(messages) |-> [kind |-> "console", message |-> messages[k].message]]
     ELSE <<>>

\* _log_console: driver.get_log('browser') returns logs, or raises
_log_console(ok, logs) ==
  /\ trace' = Called("get_log", ok)
  /\ IF ok
     THEN /\ captured' = logs
          /\ logged' = logged \o Emitted(logs)
     ELSE /\ logs = <<>>
          /\ UNCHANGED <<captured, logged>>

\* lines 271-273: after the load timeout, log the console and raise RuntimeError
LogConsoleLoadTimeout ==
  /\ pc = "load_timeout"
  /\ \E ok \in BOOLEAN, logs \in BrowserLogs :
       /\ _log_console(ok, logs)
       /\ RaiseInWith(IF ok THEN "RuntimeError" ELSE "WebDriverException")
       /\ waitExit' = IF ok THEN "RuntimeError" ELSE "WebDriverException"
  /\ UNCHANGED <<inputVars, tmpVars, layoutVars, loadWait, renderWait, loadPolls, renderPolls, outVars>>

\* line 275: driver.execute_script(_WAIT_SCRIPT)
ExecWaitScript ==
  /\ DriverCall("wait_script", "wait_script", "render_poll")
  /\ waitExit' = IF exc' # "none" THEN "WebDriverException" ELSE waitExit
  /\ UNCHANGED <<inputVars, tmpVars, layoutVars, loadWait, renderWait, loadPolls, renderPolls, captured, logged, outVars>>

\* lines 282-285: the second WebDriverWait raised TimeoutException
RenderTimeoutFatal == /\ exc' = "RuntimeError"
                      /\ UNCHANGED logged
RenderTimeout == /\ logged' = Append(logged, Warning("TimeoutException while waiting for bokeh:idle"))
                 /\ UNCHANGED exc

\* line 281: one poll of is_bokeh_render_complete by WebDriverWait
PollRender ==
  /\ pc = "render_poll"
  /\ \E outcome \in {"true", "false", "timeout", "raise"} :
       /\ outcome = "false" => renderPolls + 1 < MaxPolls
       /\ CASE outcome = "true" -> renderWait' = "true" /\ pc' = "render_finally" /\ UNCHANGED <<exc, logged>>
            [] outcome = "false" -> UNCHANGED <<renderWait, pc, exc, logged>>
            [] outcome = "timeout" -> renderWait' = "timeout" /\ pc' = "render_finally" /\ RenderTimeout
            [] outcome = "raise" -> /\ renderWait' = "error"
                                    /\ pc' = "render_finally"
                                    /\ exc' = "WebDriverException"
                                    /\ UNCHANGED logged
  /\ renderPolls' = renderPolls + 1
  /\ trace' = Called("poll_render", exc' = "none")
  /\ UNCHANGED <<inputVars, tmpVars, layoutVars, loadWait, loadPolls, waitExit, captured, outVars>>

\* lines 286-287: the finally clause logs the console, then the function returns
\* or lets the pending exception go on
LogConsoleFinally ==
  /\ pc = "render_finally"
  /\ \E ok \in BOOLEAN, logs \in BrowserLogs :
       /\ _log_console(ok, logs)
       /\ IF ~ok
          THEN RaiseInWith("WebDriverException") /\ waitExit' = "WebDriverException"
          ELSE IF exc # "none"
               THEN RaiseInWith(exc) /\ waitExit' = exc
               ELSE /\ waitExit' = "return"
                    /\ pc' = IF IsPng(fn) THEN "maximize_viewport" ELSE "svg_script"
                    /\ UNCHANGED exc
  /\ UNCHANGED <<inputVars, tmpVars, layoutVars, loadWait, renderWait, loadPolls, renderPolls, outVars>>

\* ------------------------------------------------------------- extraction
\* line 197: _maximize_viewport
MaximizeViewport ==
  /\ DriverCall("maximize_viewport", "maximize_viewport", "screenshot")
  /\ UNCHANGED <<inputVars, tmpVars, layoutVars, waitVars, logged, outVars>>

\* line 198: web_driver.get_screenshot_as_png()
Screenshot ==
  /\ DriverCall("screenshot", "get_screenshot_as_png", "tmp_exit")
  /\ UNCHANGED <<inputVars, tmpVars, layoutVars, waitVars, logged, outVars>>

\* line 214: web_driver.execute_script(_SVG_SCRIPT)
ExecSvgScript ==
  /\ DriverCall("svg_script", "svg_script", "tmp_exit")
  /\ IF exc' = "none"
     THEN \E n \in 0..MaxSvgs : svgs' = [k \in 1..n |-> Digit(k)]
     ELSE UNCHANGED svgs
  /\ UNCHANGED <<inputVars, tmpVars, layoutVars, waitVars, logged, image, filename, filenames, i, written, result, chosen>>

\* the end of the with block: _TempFile.__exit__
TmpExit ==
  /\ pc = "tmp_exit"
  /\ \E cfail \in BOOLEAN, ufail \in BOOLEAN : CallClose("__exit__", cfail, ufail)
  /\ pc' = IF exc' # "none" THEN "done" ELSE IF IsPng(fn) THEN "image_open" ELSE "svgs_return"
  /\ UNCHANGED <<inputVars, gcDone, layoutVars, waitVars, logged, outVars>>

\* _TempFile.__del__, when the object is collected after the call
Del ==
  /\ pc = "done"
  /\ ~gcDone
  /\ gcDone' = TRUE
  /\ \E cfail \in BOOLEAN, ufail \in BOOLEAN : CallClose("__del__", cfail, ufail)
  /\ UNCHANGED <<inputVars, pc, layoutVars, waitVars, logged, outVars>>

\* ------------------------------------------------------------- export_png
\* line 200: decode the screenshot (or fail to); get_screenshot_as_png returns
\* the image
ImageOpen ==
  /\ pc = "image_open"
  /\ \/ \E img \in Images :
          /\ image' = img
          /\ IF fn = "export_png"
             THEN pc' = "export_png" /\ UNCHANGED result
             ELSE pc' = "done" /\ result' = [kind |-> "image", value |-> img]
          /\ UNCHANGED exc
     \/ /\ exc' = "ImageError"
        /\ pc' = "done"
        /\ UNCHANGED <<image, result>>
  /\ trace' = Called("image_open", exc' = "none")
  /\ UNCHANGED <<inputVars, tmpVars, layoutVars, waitVars, logged, svgs, filename, filenames, i, written, chosen>>

\* line 96: the test for an empty image
IsEmptyImageBoth(img) == img.width = 0 /\ img.height = 0
IsEmptyImage(img) == img.width = 0 \/ img.height = 0

\* lines 93-101: choose the filename, reject an empty image, save, return the path
ExportPng ==
  /\ pc = "export_png"
  /\ \E name \in Filenames \cup {NoneName} :
       LET f == IF name = NoneName THEN default_filename(<<"p", "n", "g">>) ELSE name
       IN /\ filename' = f
          /\ chosen' = f
          /\ IF IsEmptyImage(image)
             THEN /\ exc' = "ValueError"
                  /\ UNCHANGED <<written, result, trace>>
             ELSE /\ written' = Append(written, [name |-> f, content |-> "png"])
                  /\ result' = [kind |-> "path", value |-> abspath(f)]
                  /\ trace' = Append(trace, "image_save")
                  /\ UNCHANGED exc
  /\ pc' = "done"
  /\ UNCHANGED <<inputVars, tmpVars, layoutVars, waitVars, logged, image, svgs, filenames, i>>

\* ------------------------------------------------------------ export_svgs
\* line 216: get_svgs returns the list; line 137: export_svgs receives it
ReturnSvgs ==
  /\ pc = "svgs_return"
  /\ IF fn = "get_svgs"
     THEN pc' = "done" /\ result' = [kind |-> "svgs", value |-> svgs]
     ELSE pc' = "export_svgs" /\ UNCHANGED result
  /\ UNCHANGED <<inputVars, exc, tmpVars, layoutVars, waitVars, logged, image, svgs, filename, filenames, i, written, chosen, trace>>

\* line 139: the test for no SVGs
NoSvgsNever(s) == FALSE
NoSvgs(s) == Len(s) = 0

\* lines 139-146: warn and return when there is no SVG, else choose the filename
ExportSvgsStart ==
  /\ pc = "export_svgs"
  /\ IF NoSvgs(svgs)
     THEN /\ logged' = Append(logged, Warning("No SVG Plots were found."))
          /\ result' = [kind |-> "None", value |-> <<>>]
          /\ pc' = "done"
          /\ UNCHANGED <<filename, filenames, i, chosen>>
     ELSE /\ \E name \in Filenames \cup {NoneName} :
               filename' = IF name = NoneName THEN default_filename(<<"s", "v", "g">>) ELSE name
          /\ chosen' = filename'
          /\ filenames' = <<>>
          /\ i' = 0
          /\ pc' = "svg_loop"
          /\ UNCHANGED <<logged, result>>
  /\ UNCHANGED <<inputVars, exc, tmpVars, layoutVars, waitVars, image, svgs, written, trace>>

\* lines 148-158: one iteration of the loop over enumerate(svgs)
SvgLoop ==
  /\ pc = "svg_loop"
  /\ i < Len(svgs)
  /\ LET f == SvgFilename(filename, i)
     IN /\ filename' = f
        /\ written' = Append(written, [name |-> f, content |-> svgs[i + 1]])
        /\ filenames' = Append(filenames, f)
  /\ i' = i + 1
  /\ trace' = Append(trace, "write_svg")
  /\ UNCHANGED <<inputVars, pc, exc, tmpVars, layoutVars, waitVars, logged, image, svgs, result, chosen>>

\* line 160: return filenames
SvgReturn ==
  /\ pc = "svg_loop"
  /\ i = Len(svgs)
  /\ result' = [kind |-> "list", value |-> filenames]
  /\ pc' = "done"
  /\ UNCHANGED <<inputVars, exc, tmpVars, layoutVars, waitVars, logged, image, svgs, filename, filenames, i, written, chosen, trace>>

Next ==
  \/ TmpHtml
  \/ GetLayoutHtmlResize
  \/ FileHtml
  \/ WriteHtml
  \/ MaximizeWindow
  \/ Navigate
  \/ PollLoaded
  \/ LogConsoleLoadTimeout
  \/ ExecWaitScript
  \/ PollRender
  \/ LogConsoleFinally
  \/ MaximizeViewport
  \/ Screenshot
  \/ ExecSvgScript
  \/ TmpExit
  \/ Del
  \/ ImageOpen
  \/ ExportPng
  \/ ReturnSvgs
  \/ ExportSvgsStart
  \/ SvgLoop
  \/ SvgReturn

Spec == Init /\ [][Next]_vars

\* ------------------------------------------- a _TempFile used on its own
\* the methods called on the _TempFile so far
Methods == {"close", "__exit__", "__del__"}
MethodCalls == Cardinality({k \in DOMAIN trace : trace[k] \in Methods})

InitTempFile ==
  /\ fn = "_TempFile"
  /\ obj \in Objects
  /\ kwargs = NoKwargs
  /\ pc = "tempfile"
  /\ tmp = [fd |-> "fd", path |-> "tmp.html", _closed |-> FALSE]
  /\ fs = [fdOpen |-> TRUE, exists |-> TRUE]
  /\ Common

CallMethod(method) ==
  /\ pc = "tempfile"
  /\ MethodCalls < MaxCalls
  /\ \E cfail \in BOOLEAN, ufail \in BOOLEAN : CallClose(method, cfail, ufail)
  /\ UNCHANGED <<inputVars, pc, gcDone, layoutVars, waitVars, logged, outVars>>

\* line 355: close()
TempFileClose == CallMethod("close")
\* line 349: __exit__
TempFileExit == CallMethod("__exit__")
\* line 352: __del__
TempFileDel == CallMethod("__del__")

NextTempFile ==
  \/ TempFileClose
  \/ TempFileExit
  \/ TempFileDel

SpecTempFile == InitTempFile /\ [][NextTempFile]_vars

\* ================================================================ properties
Count(e) == Cardinality({k \in DOMAIN trace : trace[k] = e})
\* the position of the first / last call of e in the trace (0: never called)
FirstPos(e) == IF Count(e) = 0 THEN 0 ELSE CHOOSE k \in DOMAIN trace : trace[k] = e /\ \A j \in DOMAIN trace : trace[j] = e => k <= j
LastPos(e) == IF Count(e) = 0 THEN 0 ELSE CHOOSE k \in DOMAIN trace : trace[k] = e /\ \A j \in DOMAIN trace : trace[j] = e => j <= k
\* the call of e raised
Raised(e) == \E k \in DOMAIN trace : trace[k] = e /\ k < Len(trace) /\ trace[k + 1] = "raised"
AnyRaised == Count("raised") > 0
\* get_screenshot_as_png / get_svgs has returned or raised
CallLeft == pc \in {"export_png", "export_svgs", "svg_loop", "done"}
\* the screenshot / the SVG extraction was made and returned
Extraction == IF IsPng(fn) THEN "get_screenshot_as_png" ELSE "svg_script"
Extracted == Count(Extraction) = 1 /\ ~Raised(Extraction)
\* get_screenshot_as_png / get_svgs returned its result
GetReturned == IF IsPng(fn) THEN image # NoImage ELSE result.kind \in {"svgs", "None", "list"}
\* the with block of get_screenshot_as_png / get_svgs was left without an exception
GetSucceeded == pc \in {"image_open", "svgs_return", "export_png", "export_svgs", "svg_loop"} \/ (pc = "done" /\ exc \in {"none", "ValueError"})
TimeoutWarning == Warning("TimeoutException while waiting for bokeh:idle")
ConsoleLogged == LET IsConsole(r) == r.kind = "console" IN SelectSeq(logged, IsConsole)

\* C1 (as claimed): once get_screenshot_as_png or get_svgs has returned or
\* raised, on any exit path, the temporary HTML file no longer exists.
C1_TempFileGoneAfterCall == CallLeft => ~fs.exists

\* C1 (amended): on every exit path of get_screenshot_as_png / get_svgs, once the
\* call has returned or raised, the unlink of the temporary file it created has
\* been attempted exactly once, and the file can still exist only if that
\* unlink raised OSError (which close swallows); when mkstemp itself failed
\* there is no file.
C1_TempFileUnlinkedOnEveryExit ==
  CallLeft =>
    IF Raised("mkstemp") THEN ~fs.exists /\ Count("unlink") = 0
    ELSE /\ Count("unlink") = 1
         /\ tmp._closed
         /\ fs.exists => "unlink" \in swallowed

\* C1 witness: the call raised RuntimeError (load timeout) and the file is gone
C1_Witness == CallLeft /\ exc = "RuntimeError" /\ Count("unlink") = 1 /\ ~fs.exists

\* C2 (as claimed): when "library loaded" never becomes true before the timeout,
\* the call ends with RuntimeError, the wait script is never executed, "render
\* complete" is never polled, nothing is extracted and no output file is written.
C2_LoadTimeoutRaisesRuntimeError ==
  loadWait = "timeout" =>
    /\ Count("wait_script") = 0
    /\ renderPolls = 0
    /\ Count(Extraction) = 0
    /\ written = <<>>
    /\ waitExit # "none" => exc = "RuntimeError"

\* C2 (amended): when "library loaded" never becomes true before the timeout,
\* wait_until_render_complete raises: RuntimeError, or, when reading the console
\* log (driver.get_log) itself raises, that driver exception in its place; in both
\* cases the wait script is never executed, "render complete" is never polled,
\* nothing is extracted, nothing is returned and no output file is written.
C2_LoadTimeoutIsFatal ==
  loadWait = "timeout" =>
    /\ Count("wait_script") = 0
    /\ renderPolls = 0
    /\ Count(Extraction) = 0
    /\ written = <<>>
    /\ result = NoResult
    /\ waitExit # "none" => /\ Count("get_log") = 1
                            /\ exc = IF Raised("get_log") THEN "WebDriverException" ELSE "RuntimeError"
                            /\ waitExit = exc

\* C2 witness: export_png ended with RuntimeError after the load timeout
C2_Witness == pc = "done" /\ fn = "export_png" /\ loadWait = "timeout" /\ loadPolls = MaxPolls /\ exc = "RuntimeError"

\* C3 (as claimed): when "library loaded" becomes true and "render complete"
\* never does before the timeout, wait_until_render_complete logs a warning and
\* returns normally, and the caller makes the extraction and returns its result.
C3_RenderTimeoutProceeds ==
  (loadWait = "true" /\ renderWait = "timeout") =>
    /\ \E k \in DOMAIN logged : logged[k] = TimeoutWarning
    /\ waitExit \in {"none", "return"}
    /\ pc = "done" => Extracted /\ GetReturned

\* C3 (amended): when "library loaded" becomes true and "render complete" never
\* does before the timeout, wait_until_render_complete logs a warning and never
\* raises RuntimeError; unless a later call itself raises (the console-log read
\* of the finally clause, the viewport, screenshot or SVG-script call of the
\* driver, or the decoding of the screenshot), in which case that exception
\* propagates, it returns normally and the caller makes the extraction and
\* returns its result.
C3_RenderTimeoutIsNotFatal ==
  (loadWait = "true" /\ renderWait = "timeout") =>
    /\ \E k \in DOMAIN logged : logged[k] = TimeoutWarning
    /\ exc # "RuntimeError"
    /\ waitExit # "none" => Count("get_log") = 1
    /\ IF AnyRaised
       THEN exc \in {"WebDriverException", "ImageError"} /\ (waitExit = "WebDriverException" <=> Raised("get_log"))
       ELSE /\ waitExit \in {"none", "return"}
            /\ pc = "done" => Extracted /\ GetReturned

\* C3 witness: export_png returned a path although the render wait timed out
C3_Witness == pc = "done" /\ renderWait = "timeout" /\ waitExit = "return" /\ exc = "none" /\ result.kind = "path"

\* C4: in export_png an image of width 0 or height 0 is never saved (no output
\* file is written) and the call ends with ValueError, whether the filename was
\* given or defaulted.
C4_EmptyImageRejected ==
  (fn = "export_png" /\ image # NoImage /\ (image.width = 0 \/ image.height = 0)) =>
    /\ Count("image_save") = 0
    /\ written = <<>>
    /\ pc = "done" => exc = "ValueError" /\ result = NoResult

\* C4 witness: a 1 x 0 image, a filename given by the caller
C4_Witness == pc = "done" /\ fn = "export_png" /\ image = [width |-> 1, height |-> 0] /\ chosen = <<"a", "b">> /\ exc = "ValueError"

\* C5: when get_svgs returns an empty list, export_svgs logs a warning, writes
\* no file, returns no filenames (None) and does not raise.
C5_NoSvgsWarns ==
  (fn = "export_svgs" /\ pc = "done" /\ Extracted /\ Count("__exit__") = 1 /\ Len(svgs) = 0) =>
    /\ \E k \in DOMAIN logged : logged[k] = Warning("No SVG Plots were found.")
    /\ written = <<>>
    /\ Count("write_svg") = 0
    /\ result.kind = "None"
    /\ exc = "none"

\* C5 witness: export_svgs ended on a page without SVGs
C5_Witness == fn = "export_svgs" /\ pc = "done" /\ Extracted /\ Len(svgs) = 0 /\ result.kind = "None"

\* C6: when wait_until_render_complete ends by returning, after the
\* render-complete timeout, or with the RuntimeError of the load timeout, the
\* console log was read exactly once, and the console messages emitted are
\* exactly the captured ones of level WARNING, ERROR or SEVERE, in order.
C6_ConsoleLoggedOnce ==
  (waitExit \in {"return", "RuntimeError"} \/ (waitExit # "none" /\ renderWait = "timeout")) =>
    /\ Count("get_log") = 1
    /\ LET Reported(l) == l.level \in {"WARNING", "ERROR", "SEVERE"}
           expected == SelectSeq(captured, Reported)
       IN /\ Len(ConsoleLogged) = Len(expected)
          /\ \A k \in DOMAIN expected : ConsoleLogged[k].message = expected[k].message

\* C6 witness: the load timed out, a SEVERE message was captured and emitted
C6_Witness == waitExit = "RuntimeError" /\ Len(captured) = 1 /\ captured[1].level = "SEVERE" /\ Len(ConsoleLogged) = 1

C8_StepsInOrder ==
  /\ pc \in {"layout", "file_html", "write_html", "maximize_window", "get", "load_poll", "load_timeout", "wait_script", "render_poll", "render_finally", "maximize_viewport", "screenshot", "svg_script", "tmp_exit"} => fs.exists
  /\ GetSucceeded =>
       /\ ~AnyRaised /\ Count("__exit__") = 1
       /\ Count("write_html") = 1 /\ Count("get") = 1 /\ Count("wait_script") = 1 /\ Count(Extraction) = 1 /\ Count("unlink") = 1
       /\ html.written /\ loadWait = "true" /\ renderWait \in {"true", "timeout"}
       /\ 0 < FirstPos("write_html")
       /\ FirstPos("write_html") < FirstPos("get")
       /\ FirstPos("get") < FirstPos("poll_loaded")
       /\ LastPos("poll_loaded") < FirstPos("wait_script")
       /\ FirstPos("wait_script") < FirstPos("poll_render")
       /\ LastPos("poll_render") < FirstPos(Extraction)
       /\ FirstPos(Extraction) < FirstPos("unlink")

\* C8 witness: get_svgs succeeded after two load polls and a render timeout
C8_Witness == pc = "done" /\ fn = "get_svgs" /\ exc = "none" /\ result.kind = "svgs" /\ loadPolls = MaxPolls /\ renderWait = "timeout"

\* C9: get_layout_html leaves the object's size unchanged: after it has returned
\* or raised the plot has its original plot_height and plot_width; while the
\* HTML is rendered, a dimension whose keyword is None or not passed keeps the
\* plot's original value; a non-Plot object never changes size.
C9_SizeRestoredAndOtherKept ==
  /\ pc \notin {"start", "layout", "file_html"} => obj.plot_height = "600" /\ obj.plot_width = "800"
  /\ ~obj.isPlot => obj.plot_height = "600" /\ obj.plot_width = "800"
  /\ pc = "file_html" =>
       /\ kwargs.height \in {None, Absent} => obj.plot_height = "600"
       /\ kwargs.width \in {None, Absent} => obj.plot_width = "800"

\* C10: over any sequence of close, __exit__ and __del__ calls on one
\* _TempFile, os.close and os.unlink are each attempted at most once, by the
\* first call; from then on fd and path are None and _closed is True, also when
\* os.close or os.unlink raised OSError, and no error reaches the caller.
C10_CloseIdempotent ==
  /\ Count("os_close") <= 1
  /\ Count("unlink") <= 1
  /\ MethodCalls >= 1 =>
       /\ trace[1] \in Methods /\ trace[2] = "os_close" /\ trace[3] = "unlink"
       /\ tmp = [fd |-> None, path |-> None, _closed |-> TRUE]
       /\ exc = "none"

\* C10 witness: three calls, both os.close and os.unlink failed in the first
C10_Witness == MethodCalls = MaxCalls /\ swallowed = {"os_close", "unlink"} /\ fs.exists /\ tmp._closed

====
